---- MODULE Spec2Model ----
(***************************************************************************)
(* A model of src/process.js: one process of a cluster-mode application    *)
(* (standalone, master or worker), the node cluster registry it reads,    *)
(* the worker processes it forked, and the callbacks (shutdown tasks,      *)
(* final hook) it waits for.  Each action is one handler of the process:   *)
(* a public call, a signal, a message, a worker's exit, a task's           *)
(* completion.                                                             *)
(***************************************************************************)
EXTENDS Integers, Sequences, FiniteSets, TLC

\* ---------------------------------------------------------------- bounds
MaxWorkers == 2      \* largest config.max tried
MaxRespawns == 3     \* forks allowed beyond the initial pool
MaxTicks == 2        \* clock advances
MaxTasks == 2        \* registered shutdown tasks
MaxRuns == 2         \* concurrent shutdown() invocations
MaxReloads == 2      \* reload triggers that pass the master guard
MaxSends == 1        \* envelopes a worker forwards to its master

\* ------------------------------------------------------- program constants
MIN_LIFE == 10000
TimeStep == 5000
PidBase == 1000
Undefined == 0       \* cluster.workers[id] of an id that is gone; no target

SIGNALS == {"SIGINT", "SIGQUIT", "SIGTERM"}
CMD_RELOAD == "RELOAD"
CMD_EXIT == "EXIT"
CMD_SYNC == "SYNC"
CMD_MSG == "MSG"

\* lib/sigcode: the codes stop() passes on as the signal
CODES_EXPECTED == "0"
CODES_FATAL_ERROR == "1"

\* ------------------------------------------------------------ JS values
Null == [kind |-> "null", message |-> "", stack |-> ""]
AnError == [kind |-> "Error", message |-> "boom", stack |-> "at main"]
Truthy(e) == e.kind # "null"
\* the plain object {message, stack} exit() builds from an Error
Serialized(e) ==
    IF Truthy(e) THEN [kind |-> "object", message |-> e.message, stack |-> e.stack]
    ELSE Null
Falsy(x) == x \in {"0", "undefined", "null", ""}
OrNull(x) == IF Falsy(x) THEN "null" ELSE x
OrElse(x, y) == IF Falsy(x) THEN y ELSE x
CodeString(code) == IF code = 0 THEN "0" ELSE "1"

RECURSIVE SortedKeys(_)
\* Object.keys of an object with integer keys: ascending order
SortedKeys(S) ==
    IF S = {} THEN <<>>
    ELSE LET m == CHOOSE x \in S : \A y \in S : x <= y
         IN <<m>> \o SortedKeys(S \ {m})

VARIABLES
    clusterIsMaster,  \* cluster.isMaster: this is the process that began the run
    pc,               \* "loaded" | "running" | "exited"
    now,              \* Date.now()
    isMaster, numOfWorkers, autoSpawn, syncWorker,
    isReloading, isShutdown, shutdownLock, reloaded,
    shutdownTasks,    \* sequence of [runOnMaster]
    workerMap,        \* id -> [started, pid]
    onExit,           \* a final hook is registered
    clusterWorkers,   \* cluster.workers: id -> commands delivered to that worker
    nextId,           \* the id cluster.fork() gives next
    workerHandler,    \* startWorker registered the master-to-worker listener
    reloadedListeners,   \* once('reloaded') listeners: the eachSeries runs of reload()
    workerExitListeners, \* once('workerExit') listeners: the eachSeries run of exit()
    runs,             \* the invocations of shutdown()
    exitCode,         \* the code given to process.exit
    readyEvents, autoSpawnEvents, exitEvents,  \* events emitted
    reloadEvents,     \* reload events emitted since the last reload trigger
    taskStarts, taskDones,  \* per registered task: times started, times completed
    outbox,           \* envelopes this worker sent to its master
    reloadCalls,      \* reload triggers that passed the master guard
    config,           \* the config start() was given
    stopAbsorbed,     \* a call of stop() found shutdownLock set
    stopError,        \* stop() was given an error
    lockSig           \* the sig of the exit() call that took shutdownLock

vars == <<clusterIsMaster, pc, now, isMaster, numOfWorkers, autoSpawn, syncWorker,
          isReloading, isShutdown, shutdownLock, reloaded, shutdownTasks, workerMap,
          onExit, clusterWorkers, nextId, workerHandler, reloadedListeners,
          workerExitListeners, runs, exitCode, readyEvents, reloadEvents,
          autoSpawnEvents, exitEvents, taskStarts, taskDones, outbox, reloadCalls,
          config, stopAbsorbed, stopError, lockSig>>

\* The state a handler reads and writes, as one record.
Cur ==
    [clusterIsMaster |-> clusterIsMaster, pc |-> pc, now |-> now,
     isMaster |-> isMaster, numOfWorkers |-> numOfWorkers, autoSpawn |-> autoSpawn,
     syncWorker |-> syncWorker, isReloading |-> isReloading, isShutdown |-> isShutdown,
     shutdownLock |-> shutdownLock, reloaded |-> reloaded,
     shutdownTasks |-> shutdownTasks, workerMap |-> workerMap, onExit |-> onExit,
     clusterWorkers |-> clusterWorkers, nextId |-> nextId,
     workerHandler |-> workerHandler, reloadedListeners |-> reloadedListeners,
     workerExitListeners |-> workerExitListeners, runs |-> runs, exitCode |-> exitCode,
     readyEvents |-> readyEvents, reloadEvents |-> reloadEvents,
     autoSpawnEvents |-> autoSpawnEvents, exitEvents |-> exitEvents,
     taskStarts |-> taskStarts, taskDones |-> taskDones, outbox |-> outbox,
     reloadCalls |-> reloadCalls, config |-> config, stopAbsorbed |-> stopAbsorbed,
     stopError |-> stopError, lockSig |-> lockSig]

\* The caps that keep the model finite.
WithinBounds(s) ==
    /\ s.nextId <= MaxWorkers + MaxRespawns + 1
    /\ Len(s.runs) <= MaxRuns
    /\ s.reloadCalls <= MaxReloads
    /\ Len(s.outbox) <= MaxSends

Commit(s) ==
    /\ WithinBounds(s)
    /\ clusterIsMaster' = s.clusterIsMaster
    /\ pc' = s.pc
    /\ now' = s.now
    /\ isMaster' = s.isMaster
    /\ numOfWorkers' = s.numOfWorkers
    /\ autoSpawn' = s.autoSpawn
    /\ syncWorker' = s.syncWorker
    /\ isReloading' = s.isReloading
    /\ isShutdown' = s.isShutdown
    /\ shutdownLock' = s.shutdownLock
    /\ reloaded' = s.reloaded
    /\ shutdownTasks' = s.shutdownTasks
    /\ workerMap' = s.workerMap
    /\ onExit' = s.onExit
    /\ clusterWorkers' = s.clusterWorkers
    /\ nextId' = s.nextId
    /\ workerHandler' = s.workerHandler
    /\ reloadedListeners' = s.reloadedListeners
    /\ workerExitListeners' = s.workerExitListeners
    /\ runs' = s.runs
    /\ exitCode' = s.exitCode
    /\ readyEvents' = s.readyEvents
    /\ reloadEvents' = s.reloadEvents
    /\ autoSpawnEvents' = s.autoSpawnEvents
    /\ exitEvents' = s.exitEvents
    /\ taskStarts' = s.taskStarts
    /\ taskDones' = s.taskDones
    /\ outbox' = s.outbox
    /\ reloadCalls' = s.reloadCalls
    /\ config' = s.config
    /\ stopAbsorbed' = s.stopAbsorbed
    /\ stopError' = s.stopError
    /\ lockSig' = s.lockSig

\* ------------------------------------------------------------ role queries
eeIsMaster(s) == s.isMaster /\ s.numOfWorkers # 0
eeIsCluster(s) == s.numOfWorkers # 0
noMoreWorkers(s) == DOMAIN s.clusterWorkers = {}

\* ---------------------------------------------------------------- lib/msg
\* msg.send(data, worker): on the master to that worker, or to every worker when
\* no worker is given; on a worker to the master.
msgSend(s, data, worker) ==
    IF s.clusterIsMaster
    THEN LET to == IF worker = Undefined THEN DOMAIN s.clusterWorkers ELSE {worker}
             pending == IF data.command \in {CMD_RELOAD, CMD_EXIT}
                        THEN {data.command} ELSE {}
         IN [s EXCEPT !.clusterWorkers =
                          [i \in DOMAIN @ |-> IF i \in to THEN @[i] \cup pending ELSE @[i]]]
    ELSE [s EXCEPT !.outbox = Append(@, data)]

\* cluster.workers[id]
workerOf(s, id) == IF id \in DOMAIN s.clusterWorkers THEN id ELSE Undefined

Envelope(command) == [command |-> command, error |-> Null, sig |-> "undefined"]

syncWorkerMap(s) ==
    IF s.syncWorker THEN msgSend(s, Envelope(CMD_SYNC), Undefined) ELSE s

createWorker(s) ==
    LET id == s.nextId
        s1 == [s EXCEPT !.nextId = id + 1,
                        !.clusterWorkers = [i \in DOMAIN @ \cup {id} |->
                                               IF i = id THEN {} ELSE @[i]],
                        !.workerMap = [i \in DOMAIN @ \cup {id} |->
                                          IF i = id
                                          THEN [started |-> s.now, pid |-> PidBase + id]
                                          ELSE @[i]]]
    IN syncWorkerMap(s1)


\* ------------------------------------------------------------- shutdown
\* the tail of shutdown(): the callback async.eachSeries calls when the list is
\* finished or a task gave an error
done(s, r, error) ==
    LET code == IF error THEN 1 ELSE 0
        s1 == [s EXCEPT !.exitEvents = Append(@, <<code, OrNull(s.runs[r].sig)>>)]
    IN IF s1.onExit
       THEN [s1 EXCEPT !.runs[r].phase = "hook", !.runs[r].code = code]
       ELSE [s1 EXCEPT !.runs[r].phase = "exited", !.runs[r].code = code,
                       !.pc = "exited", !.exitCode = code]

\* the shutdownTasks.filter of shutdown(): indexes of the tasks to run
taskFilter(s) ==
    SelectSeq([i \in 1..Len(s.shutdownTasks) |-> i],
              LAMBDA i : IF eeIsMaster(s) THEN s.shutdownTasks[i].runOnMaster ELSE TRUE)

\* async.eachSeries calling the iterator on item pos of run r
startTask(s, r, pos) ==
    LET t == s.runs[r].tasks[pos]
    IN [s EXCEPT !.runs[r].pos = pos, !.taskStarts[t] = @ + 1]

\* shutdown with async.each in place of async.eachSeries: every task is started
\* at once
shutdownParallel(s, errorShutdown, sig, via) ==
    LET taskList == taskFilter(s)
        r == Len(s.runs) + 1
        s1 == [s EXCEPT !.runs = Append(@, [tasks |-> taskList, pos |-> Len(taskList),
                                            sig |-> sig,
                                            fatal |-> errorShutdown, phase |-> "tasks",
                                            code |-> 0, failedAt |-> 0,
                                            completed |-> 0, via |-> via,
                                            registered |-> Len(s.shutdownTasks),
                                            selective |-> eeIsMaster(s),
                                            locked |-> s.shutdownLock]),
                        !.taskStarts = [t \in DOMAIN @ |->
                                           IF \E k \in DOMAIN taskList : taskList[k] = t
                                           THEN @[t] + 1 ELSE @[t]]]
    IN IF taskList = <<>> THEN done(s1, r, FALSE) ELSE s1

shutdown(s, errorShutdown, sig, via) ==
    LET taskList == taskFilter(s)
        r == Len(s.runs) + 1
        s1 == [s EXCEPT !.runs = Append(@, [tasks |-> taskList, pos |-> 0, sig |-> sig,
                                            fatal |-> errorShutdown, phase |-> "tasks",
                                            code |-> 0, failedAt |-> 0,
                                            completed |-> 0, via |-> via,
                                            registered |-> Len(s.shutdownTasks),
                                            selective |-> eeIsMaster(s),
                                            locked |-> s.shutdownLock])]
    IN IF taskList = <<>> THEN done(s1, r, FALSE) ELSE startTask(s1, r, 1)

\* the completion signal of the task run r waits for: async.eachSeries goes on
\* to the next item, or calls done
\* taskNext that goes on to the next task after a failure and keeps the code
taskNextNoShortCircuit(s, r, error) ==
    LET run == s.runs[r]
        failed == error \/ run.failedAt > 0
        s1 == [s EXCEPT !.taskDones[run.tasks[run.pos]] = @ + 1,
                        !.runs[r].completed = @ + 1,
                        !.runs[r].failedAt = IF error /\ @ = 0 THEN run.pos ELSE @]
    IN IF run.pos = Len(run.tasks) THEN done(s1, r, failed)
       ELSE startTask(s1, r, run.pos + 1)

taskNext(s, r, error) ==
    LET run == s.runs[r]
        s1 == [s EXCEPT !.taskDones[run.tasks[run.pos]] = @ + 1,
                        !.runs[r].completed = @ + 1]
    IN IF error THEN done([s1 EXCEPT !.runs[r].failedAt = run.pos], r, TRUE)
       ELSE IF run.pos = Len(run.tasks) THEN done(s1, r, FALSE)
       ELSE startTask(s1, r, run.pos + 1)

\* ---------------------------------------------------------- event chains
RECURSIVE eachSeriesNext(_, _, _, _)
\* Every pending once-listener of an eachSeries run is called (next): the run goes
\* on to its next key, registers a new listener and sends `command` to that
\* worker; a run past its last key is finished.  Returns [s, listeners].
eachSeriesNext(s, pending, kept, command) ==
    IF pending = <<>> THEN [s |-> s, listeners |-> kept]
    ELSE LET c == Head(pending)
             idx == c.idx + 1
         IN IF idx > Len(c.keys)
            THEN eachSeriesNext(s, Tail(pending), kept, command)
            ELSE eachSeriesNext(
                     msgSend(s, [Envelope(command) EXCEPT !.error = c.error],
                             workerOf(s, c.keys[idx])),
                     Tail(pending), Append(kept, [c EXCEPT !.idx = idx]), command)

\* emitter.emit('reloaded')
emitReloaded(s) ==
    LET r == eachSeriesNext(s, s.reloadedListeners, <<>>, CMD_RELOAD)
    IN [r.s EXCEPT !.reloadedListeners = r.listeners]

\* emitter.emit('workerExit')
emitWorkerExit(s) ==
    LET r == eachSeriesNext(s, s.workerExitListeners, <<>>, CMD_EXIT)
    IN [r.s EXCEPT !.workerExitListeners = r.listeners]

\* ------------------------------------------------------------ worker exits
\* handleReloading with the reset one replacement early
handleReloadingEarly(s) ==
    LET s1 == emitReloaded(createWorker(s))
        s2 == [s1 EXCEPT !.reloaded = @ + 1, !.reloadEvents.reloading = @ + 1]
    IN IF s2.reloaded >= s2.numOfWorkers - 1
       THEN [s2 EXCEPT !.isReloading = FALSE, !.reloaded = 0,
                       !.reloadEvents.complete = @ + 1,
                       !.reloadEvents.sizeAtComplete = Cardinality(DOMAIN s2.workerMap)]
       ELSE s2

handleReloading(s) ==
    LET s1 == emitReloaded(createWorker(s))
        s2 == [s1 EXCEPT !.reloaded = @ + 1, !.reloadEvents.reloading = @ + 1]
    IN IF s2.reloaded = s2.numOfWorkers
       THEN [s2 EXCEPT !.isReloading = FALSE, !.reloaded = 0,
                       !.reloadEvents.complete = @ + 1,
                       !.reloadEvents.sizeAtComplete = Cardinality(DOMAIN s2.workerMap)]
       ELSE s2

\* handleAutoSpawn without the return after the decrement
handleAutoSpawnNoReturn(s, workerData) ==
    IF ~s.isShutdown
    THEN LET s1 == IF s.now - workerData.started < MIN_LIFE
                   THEN [s EXCEPT !.numOfWorkers = @ - 1] ELSE s
         IN [createWorker(s1) EXCEPT !.autoSpawnEvents = @ + 1]
    ELSE s

\* handleAutoSpawn with the lifespan compared by <=
handleAutoSpawnInclusive(s, workerData) ==
    IF ~s.isShutdown
    THEN IF s.now - workerData.started <= MIN_LIFE
         THEN [s EXCEPT !.numOfWorkers = @ - 1]
         ELSE [createWorker(s) EXCEPT !.autoSpawnEvents = @ + 1]
    ELSE s

handleAutoSpawn(s, workerData) ==
    IF ~s.isShutdown
    THEN IF s.now - workerData.started < MIN_LIFE
         THEN [s EXCEPT !.numOfWorkers = @ - 1]
         ELSE [createWorker(s) EXCEPT !.autoSpawnEvents = @ + 1]
    ELSE s

\* cluster.on('exit'): node has already taken the worker out of cluster.workers
handleWorkerExit(s, id, code, suicide) ==
    LET workerData == s.workerMap[id]
        s1 == [s EXCEPT !.workerMap = [i \in DOMAIN @ \ {id} |-> @[i]]]
    IN IF s1.isReloading THEN handleReloading(s1)
       ELSE LET s2 == IF ~suicide /\ s1.autoSpawn
                      THEN handleAutoSpawn(s1, workerData) ELSE s1
            IN IF noMoreWorkers(s2)
               THEN IF s2.isShutdown \/ code # 0
                    THEN shutdown(s2, FALSE, CodeString(code), "workerExit")
                    ELSE s2
               ELSE emitWorkerExit(syncWorkerMap(s2))

\* ----------------------------------------------------------------- reload
NoReloadEvents ==
    [triggered |-> FALSE, sizeAtTrigger |-> 0, n |-> 0, reloading |-> 0, complete |-> 0,
     sizeAtComplete |-> 0]

\* reload without the master-only test
reloadAnyRole(s) ==
    IF s.numOfWorkers # 0
    THEN LET keys == SortedKeys(DOMAIN s.clusterWorkers)
             s1 == [s EXCEPT !.isReloading = TRUE, !.reloaded = 0,
                             !.reloadCalls = @ + 1,
                             !.reloadEvents = [NoReloadEvents EXCEPT
                                 !.triggered = TRUE,
                                 !.sizeAtTrigger = Cardinality(DOMAIN s.workerMap),
                                 !.n = s.numOfWorkers]]
         IN IF keys = <<>> THEN s1
            ELSE msgSend([s1 EXCEPT !.reloadedListeners =
                              Append(@, [keys |-> keys, idx |-> 1, error |-> Null])],
                         Envelope(CMD_RELOAD), workerOf(s1, keys[1]))
    ELSE s

reload(s) ==
    IF ~s.isMaster THEN s
    ELSE IF s.numOfWorkers # 0
    THEN LET keys == SortedKeys(DOMAIN s.clusterWorkers)
             s1 == [s EXCEPT !.isReloading = TRUE, !.reloaded = 0,
                             !.reloadCalls = @ + 1,
                             !.reloadEvents = [NoReloadEvents EXCEPT
                                 !.triggered = TRUE,
                                 !.sizeAtTrigger = Cardinality(DOMAIN s.workerMap),
                                 !.n = s.numOfWorkers]]
         IN IF keys = <<>> THEN s1
            ELSE msgSend([s1 EXCEPT !.reloadedListeners =
                              Append(@, [keys |-> keys, idx |-> 1, error |-> Null])],
                         Envelope(CMD_RELOAD), workerOf(s1, keys[1]))
    ELSE s

\* ------------------------------------------------------------------- exit
\* exit() of a worker: the request goes to the master
exitForward(s, errorExit, sig) ==
    msgSend(s, [command |-> CMD_EXIT, error |-> Serialized(errorExit), sig |-> sig],
            Undefined)

\* exitLocked that does not wait for the workers
exitLockedNoDrain(s, errorExit, sig) ==
    shutdown([s EXCEPT !.shutdownLock = TRUE, !.lockSig = sig,
                       !.isShutdown = s.numOfWorkers # 0 /\ s.clusterIsMaster],
             Truthy(errorExit), sig, "exit")

\* exit() of the primary process once it holds the lock
exitLocked(s, errorExit, sig) ==
    LET s1 == [s EXCEPT !.shutdownLock = TRUE, !.lockSig = sig]
    IN IF s1.numOfWorkers # 0 /\ s1.clusterIsMaster
       THEN LET s2 == [s1 EXCEPT !.isShutdown = TRUE]
                keys == SortedKeys(DOMAIN s2.clusterWorkers)
            IN IF noMoreWorkers(s2)
               THEN shutdown(s2, ~Falsy(sig), "undefined", "exit")
               ELSE msgSend([s2 EXCEPT !.workerExitListeners =
                                 Append(@, [keys |-> keys, idx |-> 1,
                                            error |-> Serialized(errorExit)])],
                            [Envelope(CMD_EXIT) EXCEPT !.error = Serialized(errorExit)],
                            workerOf(s2, keys[1]))
       ELSE IF s1.numOfWorkers = 0
       THEN shutdown(s1, Truthy(errorExit), sig, "exit")
       ELSE s1

\* exit without the worker's forwarding branch
exitLocal(s, errorExit, sig) ==
    IF s.shutdownLock THEN s
    ELSE exitLocked(s, errorExit, sig)

exit(s, errorExit, sig) ==
    IF ~s.isMaster THEN exitForward(s, errorExit, sig)
    ELSE IF s.shutdownLock THEN s
    ELSE exitLocked(s, errorExit, sig)

\* --------------------------------------------------------------- messages
EmptyMap == [i \in {} |-> {}]

\* what arrives on the channel: a string that JSON.parse accepts or not
Data(json, command, error, sig, map) ==
    [json |-> json, command |-> command, error |-> error, sig |-> sig, map |-> map]
Garbage == Data(FALSE, "undefined", Null, "undefined", EmptyMap)
\* text that names a command and a signal but is cut short: not JSON either
GarbageExit == Data(FALSE, CMD_EXIT, Null, "SIGINT", EmptyMap)
GarbageReload == Data(FALSE, CMD_RELOAD, Null, "undefined", EmptyMap)
NotJSON == {Garbage, GarbageExit, GarbageReload}

\* data.command read from the text without the parse
commandOfUnparsed(data) == data.command

\* data.command after the try { JSON.parse } catch: a string has no command
commandOf(data) == IF data.json THEN data.command ELSE "undefined"

\* what a worker may send to its master
FromWorker ==
    NotJSON \cup
    {
     Data(TRUE, "undefined", Null, "undefined", EmptyMap),
     Data(TRUE, CMD_MSG, Null, "undefined", EmptyMap),
     Data(TRUE, CMD_EXIT, Null, "SIGINT", EmptyMap),
     Data(TRUE, CMD_EXIT, Serialized(AnError), CODES_FATAL_ERROR, EmptyMap),
     Data(TRUE, CMD_EXIT, Null, CODES_EXPECTED, EmptyMap)}

\* what the master may send to a worker
FromMaster ==
    NotJSON \cup
    {
     Data(TRUE, "undefined", Null, "undefined", EmptyMap),
     Data(TRUE, CMD_MSG, Null, "undefined", EmptyMap),
     Data(TRUE, CMD_EXIT, Null, "undefined", EmptyMap),
     Data(TRUE, CMD_EXIT, Serialized(AnError), "undefined", EmptyMap),
     Data(TRUE, CMD_RELOAD, Null, "undefined", EmptyMap),
     Data(TRUE, CMD_SYNC, Null, "undefined", EmptyMap),
     Data(TRUE, CMD_SYNC, Null, "undefined",
          [i \in {1} |-> [started |-> 0, pid |-> PidBase + 1]])}

\* lib/msg relay: the master forwards an application message
msgRelay(s, data, worker) == s

\* worker.on('message') of createWorker: a message from worker `worker`
onWorkerMessage(s, worker, data) ==
    CASE commandOf(data) = CMD_MSG -> msgRelay(s, data, worker)
      [] commandOf(data) = CMD_EXIT -> exit(s, data.error, OrElse(data.sig, "SIGTERM"))
      [] OTHER -> s

\* process.on('message') of startWorker: a message from the master
onMasterMessage(s, data) ==
    CASE commandOf(data) = "undefined" -> s
      [] commandOf(data) = CMD_EXIT ->
             shutdown(s, Truthy(data.error), "undefined", CMD_EXIT)
      [] commandOf(data) = CMD_RELOAD -> shutdown(s, FALSE, "undefined", CMD_RELOAD)
      [] commandOf(data) = CMD_SYNC -> [s EXCEPT !.workerMap = data.map]
      [] OTHER -> s

\* ------------------------------------------------------------------ start
RECURSIVE spawnWorkers(_, _)
\* the for loop of startMaster
spawnWorkers(s, i) ==
    IF i < s.numOfWorkers THEN spawnWorkers(createWorker(s), i + 1) ELSE s

startClusterMode(s) ==
    IF s.numOfWorkers > 1
    THEN IF s.clusterIsMaster
         THEN [spawnWorkers(s, 0) EXCEPT !.readyEvents = Append(@, "master.ready")]
         ELSE [s EXCEPT !.workerHandler = TRUE,
                        !.readyEvents = Append(@, "worker.ready")]
    ELSE [s EXCEPT !.readyEvents = Append(@, "non.ready")]

eeStart(s, max, auto, sync) ==
    LET s1 == [s EXCEPT !.config = [max |-> max, autoSpawn |-> auto, sync |-> sync],
                        !.isMaster = s.clusterIsMaster,
                        !.numOfWorkers = max,
                        !.autoSpawn = auto,
                        !.syncWorker = sync]
        s2 == IF ~eeIsCluster(s1) THEN [s1 EXCEPT !.syncWorker = FALSE] ELSE s1
    IN startClusterMode([s2 EXCEPT !.pc = "running"])

eeStop(s, error) ==
    exit([s EXCEPT !.stopAbsorbed = @ \/ (s.isMaster /\ s.shutdownLock),
                   !.stopError = @ \/ Truthy(error)],
         error, IF Truthy(error) THEN CODES_FATAL_ERROR ELSE CODES_EXPECTED)

eeAddShutdownTask(s, isFunction, runOnMaster) ==
    IF ~isFunction THEN s
    ELSE [s EXCEPT !.shutdownTasks =
                       Append(@, [runOnMaster |-> IF runOnMaster = "undefined" THEN TRUE
                                                  ELSE runOnMaster = "true"]),
                   !.taskStarts = Append(@, 0),
                   !.taskDones = Append(@, 0)]

eeOnExit(s, isFunction) ==
    IF ~isFunction THEN s ELSE [s EXCEPT !.onExit = TRUE]

\* ---------------------------------------------------------------- actions
\* config.sync as start() reads it: undefined or true count as true
SyncChoices == {TRUE}

Init ==
    /\ clusterIsMaster \in BOOLEAN
    /\ pc = "loaded"
    /\ now = 0
    /\ isMaster = FALSE
    /\ numOfWorkers = 0
    /\ autoSpawn = FALSE
    /\ syncWorker = TRUE
    /\ isReloading = FALSE
    /\ isShutdown = FALSE
    /\ shutdownLock = FALSE
    /\ reloaded = 0
    /\ shutdownTasks = <<>>
    /\ workerMap = EmptyMap
    /\ onExit = FALSE
    /\ clusterWorkers = EmptyMap
    /\ nextId = 1
    /\ workerHandler = FALSE
    /\ reloadedListeners = <<>>
    /\ workerExitListeners = <<>>
    /\ runs = <<>>
    /\ exitCode = -1
    /\ readyEvents = <<>>
    /\ reloadEvents = NoReloadEvents
    /\ autoSpawnEvents = 0
    /\ exitEvents = <<>>
    /\ taskStarts = <<>>
    /\ taskDones = <<>>
    /\ outbox = <<>>
    /\ reloadCalls = 0
    /\ config = [max |-> 0, autoSpawn |-> FALSE, sync |-> TRUE]
    /\ stopAbsorbed = FALSE
    /\ stopError = FALSE
    /\ lockSig = "undefined"

AddShutdownTask ==
    \E isFunction \in BOOLEAN, runOnMaster \in {"undefined", "true", "false"} :
        /\ pc \in {"loaded", "running"}
        /\ Len(shutdownTasks) < MaxTasks
        /\ Commit(eeAddShutdownTask(Cur,
                                    isFunction, runOnMaster))

OnExit ==
    \E isFunction \in BOOLEAN :
        /\ pc \in {"loaded", "running"}
        /\ Commit(eeOnExit(Cur, isFunction))

Start ==
    \E max \in 0..MaxWorkers, auto \in BOOLEAN, sync \in SyncChoices :
        /\ pc = "loaded"
        /\ Commit(eeStart(Cur, max, auto, sync))

Tick ==
    /\ pc = "running"
    /\ now < MaxTicks * TimeStep
    /\ Commit([Cur EXCEPT !.now = @ + TimeStep])

\* SIGHUP
Reload ==
    /\ pc = "running"
    /\ Commit(reload(Cur))

\* SIGINT, SIGQUIT, SIGTERM
SignalStep(sig) ==
    /\ pc = "running"
    /\ Commit(exit(Cur, Null, sig))

Signal == \E sig \in SIGNALS : SignalStep(sig)

StopStep(error) ==
    /\ pc = "running"
    /\ Commit(eeStop(Cur, error))

Stop == \E error \in {Null, AnError} : StopStep(error)

\* a worker process ends: node takes it out of cluster.workers and emits 'exit'
WorkerExitStep(id, code, suicide) ==
    /\ pc = "running"
    /\ id \in DOMAIN clusterWorkers
    /\ Commit(handleWorkerExit(
           [Cur EXCEPT !.clusterWorkers = [i \in DOMAIN @ \ {id} |-> @[i]]],
           id, code, suicide))

ExitCodes == {0, 1}

WorkerExit ==
    \E id \in DOMAIN clusterWorkers, code \in ExitCodes, suicide \in BOOLEAN :
        WorkerExitStep(id, code, suicide)

WorkerMessage ==
    \E id \in DOMAIN clusterWorkers, data \in FromWorker :
        /\ pc = "running"
        /\ Commit(onWorkerMessage(Cur, id, data))

MasterMessageStep(data) ==
    /\ pc = "running"
    /\ workerHandler
    /\ Commit(onMasterMessage(Cur, data))

MasterMessage == \E data \in FromMaster : MasterMessageStep(data)

TaskDone ==
    \E r \in DOMAIN runs, error \in BOOLEAN :
        /\ pc = "running"
        /\ runs[r].phase = "tasks"
        /\ Commit(taskNext(Cur, r, error))

OnExitDone ==
    \E r \in DOMAIN runs :
        /\ pc = "running"
        /\ runs[r].phase = "hook"
        /\ Commit([Cur EXCEPT !.pc = "exited",
                                                   !.exitCode = runs[r].code,
                                                   !.runs[r].phase = "exited"])

Next ==
    \/ AddShutdownTask
    \/ OnExit
    \/ Start
    \/ Tick
    \/ Reload
    \/ Signal
    \/ Stop
    \/ WorkerExit
    \/ WorkerMessage
    \/ MasterMessage
    \/ TaskDone
    \/ OnExitDone

Spec == Init /\ [][Next]_vars


\* The master and its pool: the primary process, no shutdown task and no final
\* hook registered, so that final shutdown ends the process at once.
InitPool == Init /\ clusterIsMaster

NextPool ==
    \/ Start
    \/ Tick
    \/ Reload
    \/ Signal
    \/ Stop
    \/ WorkerExit
    \/ WorkerMessage

SpecPool == InitPool /\ [][NextPool]_vars



\* Final shutdown in every role: the tasks, the final hook and what leads to
\* them; the clock stands still and no reload is triggered.
NextShutdown ==
    \/ AddShutdownTask
    \/ OnExit
    \/ Start
    \/ Signal
    \/ Stop
    \/ WorkerExit
    \/ MasterMessage
    \/ TaskDone
    \/ OnExitDone

SpecShutdown == Init /\ [][NextShutdown]_vars

\* A worker process: a forked process, whose master is the environment.
InitWorker == Init /\ ~clusterIsMaster

NextWorker ==
    \/ AddShutdownTask
    \/ OnExit
    \/ Start
    \/ Reload
    \/ Signal
    \/ Stop
    \/ MasterMessage
    \/ TaskDone
    \/ OnExitDone

SpecWorker == InitWorker /\ [][NextWorker]_vars

\* The triggers a process of any role receives from outside: calls, signals and
\* the master's messages; its workers, if it has any, stay alive.
NextTriggers ==
    \/ AddShutdownTask
    \/ Start
    \/ Reload
    \/ Signal
    \/ Stop
    \/ WorkerMessage
    \/ MasterMessage
    \/ TaskDone

SpecTriggers == Init /\ [][NextTriggers]_vars


\* ------------------------------------------------------------------ claims
Size(f) == Cardinality(DOMAIN f)

\* the workers that were sent RELOAD and have not exited
ReloadPending == {i \in DOMAIN clusterWorkers : CMD_RELOAD \in clusterWorkers[i]}

\* C1: during a reload at most one worker has been sent RELOAD and has not yet
\* exited, and a reload run sends RELOAD to the next id of its snapshot only
\* after every id before it has exited.
C1_OneReloadAtATime ==
    /\ Cardinality(ReloadPending) <= 1
    /\ \A c \in DOMAIN reloadedListeners :
           \A k \in 1..(reloadedListeners[c].idx - 1) :
               reloadedListeners[c].keys[k] \notin DOMAIN clusterWorkers

C3_RegistryDuringReload ==
    (clusterIsMaster /\ isReloading) =>
        Size(workerMap) \in {numOfWorkers, numOfWorkers - 1}

\* C9: on a master with autoSpawn that is neither reloading nor shutting down,
\* an unintentional exit of a worker that lived MIN_LIFE or longer forks exactly
\* one replacement, emits one auto.spawn and leaves numOfWorkers and the registry
\* size as they were; one that lived less forks nothing, emits nothing and takes
\* exactly 1 from numOfWorkers.
C9_AutoSpawn ==
    [][\A id \in DOMAIN clusterWorkers, code \in ExitCodes :
           (/\ autoSpawn
            /\ ~isReloading
            /\ ~isShutdown
            /\ WorkerExitStep(id, code, FALSE))
           => IF now - workerMap[id].started >= MIN_LIFE
              THEN /\ nextId' = nextId + 1
                   /\ DOMAIN workerMap' = (DOMAIN workerMap \ {id}) \cup {nextId}
                   /\ autoSpawnEvents' = autoSpawnEvents + 1
                   /\ numOfWorkers' = numOfWorkers
                   /\ Size(workerMap') = Size(workerMap)
              ELSE /\ nextId' = nextId
                   /\ DOMAIN workerMap' = DOMAIN workerMap \ {id}
                   /\ autoSpawnEvents' = autoSpawnEvents
                   /\ numOfWorkers' = numOfWorkers - 1]_vars

\* C9 witness: with no reload and no shutdown, one worker was replaced after
\* MIN_LIFE and one early exit took one from numOfWorkers.
C9_Witness ==
    /\ clusterIsMaster
    /\ autoSpawn
    /\ ~reloadEvents.triggered
    /\ ~isShutdown
    /\ autoSpawnEvents = 1
    /\ numOfWorkers = config.max - 1
    /\ nextId = config.max + 2


IsPrefix(a, b) == Len(a) <= Len(b) /\ SubSeq(b, 1, Len(a)) = a
Range(f) == {f[i] : i \in DOMAIN f}
AnyTaskFailed == \E r \in DOMAIN runs : runs[r].failedAt > 0
ExitEmitted(r) == runs[r].phase \in {"hook", "exited"}

\* every task started and completed at most once, at most one exit event; at
\* the end one exit event, and every task a final shutdown selected and did not
\* cut short has run exactly once
C4_Once ==
    /\ Len(exitEvents) <= 1
    /\ \A t \in DOMAIN taskStarts : taskStarts[t] <= 1 /\ taskDones[t] <= 1
    /\ pc = "exited" =>
           /\ Len(exitEvents) = 1
           /\ \A r \in DOMAIN runs :
                  runs[r].failedAt = 0 =>
                      \A k \in DOMAIN runs[r].tasks :
                          /\ taskStarts[runs[r].tasks[k]] = 1
                          /\ taskDones[runs[r].tasks[k]] = 1

\* C4: once a second stop() has arrived in the standalone or master process
\* while a shutdown was in flight, every shutdown task is run exactly once and
\* exactly one exit event is emitted; shutdownLock, once set, is never cleared.
C4_StopIdempotent ==
    [][/\ shutdownLock => shutdownLock'
       /\ (clusterIsMaster' /\ stopAbsorbed') => C4_Once']_vars

\* C5: the process exit code is 1 whenever stop() was given an error or a
\* shutdown task reported failure, and 0 otherwise.
C5_ExitCode ==
    (clusterIsMaster /\ pc = "exited") =>
        exitCode = IF stopError \/ AnyTaskFailed THEN 1 ELSE 0

ClaimedTasks(r) ==
    SelectSeq([i \in 1..runs[r].registered |-> i],
              LAMBDA i : IF clusterIsMaster /\ config.max > 1
                         THEN shutdownTasks[i].runOnMaster ELSE TRUE)

C8_Order ==
    \A r \in DOMAIN runs :
        /\ runs[r].pos <= runs[r].completed + 1
        /\ \A k \in 2..runs[r].pos : taskDones[runs[r].tasks[k - 1]] >= 1
        /\ \A k, l \in DOMAIN runs[r].tasks : k < l => runs[r].tasks[k] < runs[r].tasks[l]

C8_Steps ==
    /\ IsPrefix(shutdownTasks, shutdownTasks')
    /\ \A r \in DOMAIN runs : runs'[r].pos \in {runs[r].pos, runs[r].pos + 1}

Forwarded(error, sig) ==
    /\ runs' = runs
    /\ pc' = pc
    /\ exitEvents' = exitEvents
    /\ taskStarts' = taskStarts
    /\ outbox' = Append(outbox, [command |-> CMD_EXIT, error |-> Serialized(error),
                                 sig |-> sig])

\* C10: in a worker, stop() and the termination signals only send an EXIT
\* envelope (the error as {message, stack}) to the master and return; a final
\* shutdown starts only on an EXIT or RELOAD command from the master.
C10_WorkerForwards ==
    [][/\ \A error \in {Null, AnError} :
              StopStep(error) =>
                  Forwarded(error, IF Truthy(error) THEN CODES_FATAL_ERROR
                                   ELSE CODES_EXPECTED)
       /\ \A sig \in SIGNALS : SignalStep(sig) => Forwarded(Null, sig)
       /\ Len(runs') > Len(runs) =>
              \E data \in FromMaster :
                  /\ commandOf(data) \in {CMD_EXIT, CMD_RELOAD}
                  /\ MasterMessageStep(data)
       /\ pc' = "exited" => runs' # <<>>]_vars

\* C10 witness: a worker was given stop(error): the envelope is in flight, no
\* final shutdown has started and the worker runs on.
C10_Witness ==
    /\ ~clusterIsMaster
    /\ workerHandler
    /\ stopError
    /\ Len(outbox) = 1
    /\ outbox[1].error.kind = "object"
    /\ runs = <<>>
    /\ pc = "running"

\* the role queries, and the role the configuration resolves to
QueryIsCluster == eeIsCluster(Cur)
QueryIsMaster == eeIsMaster(Cur)
IsWorkerRole == ~clusterIsMaster /\ numOfWorkers # 0

\* C11: start() emits exactly one readiness event: non.ready exactly when
\* isCluster() is false (and then isMaster() is false), master.ready exactly when
\* isMaster() is true, worker.ready exactly when the process is a worker.
C11_Readiness ==
    [][(pc = "loaded" /\ pc' = "running") =>
           /\ Len(readyEvents') = 1
           /\ (readyEvents'[1] = "non.ready") <=> ~QueryIsCluster'
           /\ (readyEvents'[1] = "non.ready") => ~QueryIsMaster'
           /\ (readyEvents'[1] = "master.ready") <=> QueryIsMaster'
           /\ (readyEvents'[1] = "worker.ready") <=> IsWorkerRole']_vars

\* C12: when the shutdown was triggered by SIGINT, SIGQUIT or SIGTERM received by
\* this standalone process (max = 0) or master with workers (max > 1), every
\* exit event it emits carries that signal as its second argument.
C12_ExitSignal ==
    (clusterIsMaster /\ config.max # 1 /\ lockSig \in SIGNALS) =>
        \A e \in DOMAIN exitEvents : exitEvents[e][2] = lockSig

\* C13: in a started worker, and in a standalone process (max = 0), a reload
\* trigger changes nothing; no RELOAD envelope has been sent, no reload event
\* emitted, and isReloading is false.
C13_ReloadNoOp ==
    (pc = "running" /\ (~clusterIsMaster \/ config.max = 0)) =>
        /\ reload(Cur) = Cur
        /\ ~isReloading
        /\ reloadEvents = NoReloadEvents
        /\ reloadCalls = 0
        /\ ReloadPending = {}
        /\ \A k \in DOMAIN outbox : outbox[k].command # CMD_RELOAD

\* C13 witness: a worker of a cluster, running, on which the reload trigger is
\* the identity.
C13_Witness ==
    /\ ~clusterIsMaster
    /\ pc = "running"
    /\ workerHandler
    /\ numOfWorkers > 1
    /\ reload(Cur) = Cur

\* C13 witness, standalone: the same with max = 0 in the primary process.
C13_WitnessStandalone ==
    /\ clusterIsMaster
    /\ pc = "running"
    /\ config.max = 0
    /\ reload(Cur) = Cur

\* a master that listens to its workers; a worker that listens to its master
MasterListens == clusterIsMaster /\ pc = "running" /\ DOMAIN clusterWorkers # {}
WorkerListens == ~clusterIsMaster /\ pc = "running" /\ workerHandler

Solicited == {i \in DOMAIN clusterWorkers : clusterWorkers[i] # {}}

\* a final shutdown is waiting for a task or for the final hook
ShutdownInFlight == \E r \in DOMAIN runs : runs[r].phase \in {"tasks", "hook"}

\* C15: while a shutdown begun on a master with workers has not ended the
\* process, there is always something it waits for that is assumed to come: a
\* worker that was sent EXIT or RELOAD and has still to exit, or a task or final
\* hook that has still to complete.  (Without one the master waits for ever.)
C15_ShutdownCompletes ==
    (clusterIsMaster /\ config.max > 1 /\ isShutdown /\ pc = "running") =>
        (Solicited # {} \/ ShutdownInFlight)

\* C16: while isReloading is true on a master with workers, some worker that was
\* sent a command has still to exit, so that the reload can go on to its end.
\* (Without one isReloading stays true for ever.)
C16_ReloadCompletes ==
    (clusterIsMaster /\ config.max > 1 /\ isReloading /\ pc = "running") =>
        Solicited # {}

\* C17: on a master that started with workers, a final shutdown starts only
\* with no worker alive, and no worker is alive while one exists.
C17_DrainFirst ==
    [][(clusterIsMaster /\ config.max > 1) =>
           /\ Len(runs') > Len(runs) => DOMAIN clusterWorkers' = {}
           /\ runs' # <<>> => DOMAIN clusterWorkers' = {}
           /\ Len(exitEvents') > Len(exitEvents) => DOMAIN clusterWorkers' = {}]_vars

\* C17 witness: a master of two workers was asked to stop, sent EXIT, and ended
\* through the final shutdown the last worker's exit started.
C17_Witness ==
    /\ clusterIsMaster
    /\ config.max = 2
    /\ isShutdown
    /\ shutdownLock
    /\ Len(runs) = 1
    /\ runs[1].via = "workerExit"
    /\ DOMAIN clusterWorkers = {}
    /\ pc = "exited"

\* C18: once isShutdown is true on the master, no worker is forked: the set of
\* workers only shrinks.
C18_NoSpawnInShutdown ==
    [][(clusterIsMaster /\ isShutdown) =>
           /\ nextId' = nextId
           /\ DOMAIN clusterWorkers' \subseteq DOMAIN clusterWorkers
           /\ DOMAIN workerMap' \subseteq DOMAIN workerMap]_vars

\* C19: in every process the final shutdown is entered at most once: shutdown()
\* is called at most once, every task is started at most once and at most one
\* exit event is emitted.
C19_ShutdownOnce ==
    /\ Len(runs) <= 1
    /\ \A t \in DOMAIN taskStarts : taskStarts[t] <= 1
    /\ Len(exitEvents) <= 1

\* C20: on the master the registry never holds more entries than numOfWorkers,
\* numOfWorkers is never negative, and the registry lists the live workers.
C20_PoolBounds ==
    (clusterIsMaster /\ pc # "loaded") =>
        /\ numOfWorkers >= 0
        /\ Size(workerMap) <= numOfWorkers
        /\ DOMAIN workerMap = DOMAIN clusterWorkers

\* C20 witness: a master with autoSpawn that lost a short-lived worker for good,
\* replaced a long-lived one, and went through a reload.
C20_Witness ==
    /\ clusterIsMaster
    /\ autoSpawn
    /\ config.max = 2
    /\ numOfWorkers = 1
    /\ Size(workerMap) = 1
    /\ autoSpawnEvents >= 1
    /\ reloadEvents.complete = 1
    /\ pc = "running"

====
